---------------------------- MODULE Spec2Model ----------------------------
(***************************************************************************)
(* Model of convert.py: the one-shot conversion of Chrome's "Login Data"   *)
(* table into passlist.xml and blacklist.xml.                              *)
(*                                                                         *)
(* Text is modelled as it is in Python: a str is a sequence of code        *)
(* points, a bytes value is a sequence of byte values.  The literals below *)
(* are the code points of the literals of the source; the comment next to  *)
(* each gives its text.  Python's None is the value NoneVal.  The script   *)
(* runs in an environment it does not control: the locale decides the      *)
(* encoding of the output files and of the standard output, and the        *)
(* database, the disk and the standard output may refuse an operation.     *)
(***************************************************************************)
EXTENDS Integers, Sequences, FiniteSets

VARIABLES
    encoding,   \* the locale's encoding, which open() and sys.stdout use
    store,      \* the rows of table logins in ./Login Data (a set: no order)
    pc,         \* position of the module-level script
    conn,       \* the sqlite3 connection c: "none", "open"
    txn,        \* what Connection.__exit__ did: "none", "commit", "rollback"
    remaining,  \* rows the cursor of SELECT * has not yet yielded
    dbrow,      \* module global dbrow (last row fetched)
    row,        \* module global row (dict of the last row, as mutated)
    passlist,   \* module global passlist
    blacklist,  \* module global blacklist
    files,      \* the two output files: handle state, bytes buffered, on disk
    buffering,  \* how sys.stdout buffers: "none", "line", "block"
    stdout,     \* the bytes that have reached the standard output
    outbuf,     \* the bytes print() has left in the buffer of sys.stdout
    exc,        \* the uncaught exception, if any
    url,        \* strip_path harness: the argument
    res1,       \* strip_path harness: strip_path(url)
    res2        \* strip_path harness: strip_path(strip_path(url))

vars == <<encoding, buffering, store, pc, conn, txn, remaining, dbrow, row, passlist,
          blacklist, files, stdout, outbuf, exc, url, res1, res2>>

\* what a run is given and never changes
inputs == <<encoding, buffering, store>>

-----------------------------------------------------------------------------
(* Python values *)

NoneVal == <<-1>>

\* truth value of a str or None: `not url` is true of None and of ''
Truthy(v) == v # NoneVal /\ v # <<>>

\* str.startswith
startswith(s, prefix) ==
    /\ s # NoneVal
    /\ Len(s) >= Len(prefix)
    /\ SubSeq(s, 1, Len(prefix)) = prefix

\* str.find(sep, i) for a one-character separator, counting from 1: the
\* least position from i on that holds sep, Len(s) + 1 when there is none
find(s, sep, i) ==
    LET at == {k \in i..Len(s) : s[k] = sep}
    IN  IF at = {} THEN Len(s) + 1
        ELSE CHOOSE k \in at : \A j \in at : k <= j

RECURSIVE split(_, _)
\* str.split(sep) for a one-character separator
split(s, sep) ==
    LET i == find(s, sep, 1)
    IN  IF i > Len(s)
        THEN <<s>>
        ELSE <<SubSeq(s, 1, i - 1)>> \o split(SubSeq(s, i + 1, Len(s)), sep)

RECURSIVE join(_, _)
\* sep.join(parts)
join(sep, parts) ==
    IF parts = <<>> THEN <<>>
    ELSE IF Len(parts) = 1 THEN parts[1]
    ELSE parts[1] \o sep \o join(sep, Tail(parts))

\* the slice seq[0:n]
slice0(seq, n) == SubSeq(seq, 1, IF Len(seq) < n THEN Len(seq) ELSE n)

\* what a call gives: a value, or a raised exception
Return(v) == [raised |-> FALSE, value |-> v]
Raise(v) == [raised |-> TRUE, value |-> v]

RECURSIVE decimal(_)
\* str(n) for n >= 0, as '{}'.format(n) renders an int
decimal(n) ==
    IF n < 10 THEN <<48 + n>> ELSE decimal(n \div 10) \o <<48 + (n % 10)>>

\* how str.format renders a field value: None becomes 'None'
format_value(v) == IF v = NoneVal THEN <<78, 111, 110, 101>> ELSE v

-----------------------------------------------------------------------------
(* repr() of the values a row holds, as print(dbrow) shows them *)

\* a hexadecimal digit, lower case
hexdigit(n) == IF n < 10 THEN 48 + n ELSE 87 + n

\* the escape '\xhh' of a byte or of a character below 256
hex_escape(c) == <<92, 120, hexdigit(c \div 16), hexdigit(c % 16)>>

\* the quote repr() puts around a value: a double quote when the value holds
\* a single quote and no double quote, else a single quote
repr_quote(s) ==
    IF /\ \E k \in 1..Len(s) : s[k] = 39
       /\ \A k \in 1..Len(s) : s[k] # 34
    THEN 34 ELSE 39

\* one character of a str inside quote q: the backslash and the quote are
\* escaped, tab, newline and return are named, another character that is
\* not printable (below 256: the controls, U+007F to U+00A0 and U+00AD) is
\* shown as '\xhh', a printable one stands for itself
repr_char(c, q) ==
    IF c = 92 \/ c = q THEN <<92, c>>
    ELSE IF c = 9 THEN <<92, 116>>
    ELSE IF c = 10 THEN <<92, 110>>
    ELSE IF c = 13 THEN <<92, 114>>
    ELSE IF c < 32 \/ (c >= 127 /\ c <= 160) \/ c = 173 THEN hex_escape(c)
    ELSE <<c>>

\* one byte of a bytes value inside quote q: as a character, but every byte
\* from 127 on is shown as '\xhh'
repr_byte(c, q) == IF c >= 127 THEN hex_escape(c) ELSE repr_char(c, q)

RECURSIVE repr_str_body(_, _)
repr_str_body(s, q) ==
    IF s = <<>> THEN <<>> ELSE repr_char(s[1], q) \o repr_str_body(Tail(s), q)

RECURSIVE repr_bytes_body(_, _)
repr_bytes_body(s, q) ==
    IF s = <<>> THEN <<>> ELSE repr_byte(s[1], q) \o repr_bytes_body(Tail(s), q)

\* repr(a_str)
repr_str(s) ==
    LET q == repr_quote(s) IN <<q>> \o repr_str_body(s, q) \o <<q>>

\* repr(a_bytes)
repr_bytes(s) ==
    LET q == repr_quote(s) IN <<98, q>> \o repr_bytes_body(s, q) \o <<q>>

-----------------------------------------------------------------------------
(* bytes.decode('utf-8'), strict *)

IsCont(b) == b >= 128 /\ b <= 191

\* length of the sequence a lead byte starts, 0 for an invalid lead byte
utf8_len(b) ==
    IF b < 128 THEN 1
    ELSE IF b >= 194 /\ b <= 223 THEN 2
    ELSE IF b >= 224 /\ b <= 239 THEN 3
    ELSE IF b >= 240 /\ b <= 244 THEN 4
    ELSE 0

\* second byte ranges that exclude overlong forms, surrogates and > U+10FFFF
utf8_second_ok(lead, b) ==
    IF lead = 224 THEN b >= 160 /\ b <= 191
    ELSE IF lead = 237 THEN b >= 128 /\ b <= 159
    ELSE IF lead = 240 THEN b >= 144 /\ b <= 191
    ELSE IF lead = 244 THEN b >= 128 /\ b <= 143
    ELSE IsCont(b)

utf8_codepoint(bs, n) ==
    IF n = 1 THEN bs[1]
    ELSE IF n = 2 THEN (bs[1] - 192) * 64 + (bs[2] - 128)
    ELSE IF n = 3 THEN (bs[1] - 224) * 4096 + (bs[2] - 128) * 64 + (bs[3] - 128)
    ELSE (bs[1] - 240) * 262144 + (bs[2] - 128) * 4096
         + (bs[3] - 128) * 64 + (bs[4] - 128)

RECURSIVE decode_utf8(_)
decode_utf8(bs) ==
    IF bs = <<>> THEN Return(<<>>)
    ELSE LET n == utf8_len(bs[1])
         IN  IF \/ n = 0
                \/ Len(bs) < n
                \/ (n >= 2 /\ ~utf8_second_ok(bs[1], bs[2]))
                \/ \E k \in 3..n : ~IsCont(bs[k])
             THEN Raise(bs)
             ELSE LET rest == decode_utf8(SubSeq(bs, n + 1, Len(bs)))
                  IN  IF rest.raised THEN Raise(bs)
                      ELSE Return(<<utf8_codepoint(bs, n)>> \o rest.value)

\* the UTF-8 bytes of one code point
utf8_bytes(c) ==
    IF c < 128 THEN <<c>>
    ELSE IF c < 2048 THEN <<192 + (c \div 64), 128 + (c % 64)>>
    ELSE IF c < 65536
    THEN <<224 + (c \div 4096), 128 + ((c \div 64) % 64), 128 + (c % 64)>>
    ELSE <<240 + (c \div 262144), 128 + ((c \div 4096) % 64),
           128 + ((c \div 64) % 64), 128 + (c % 64)>>

RECURSIVE encode_utf8(_)
\* str.encode('utf-8'): an ASCII character is its own byte, any other is
\* replaced by its bytes
encode_utf8(s) ==
    LET at == {k \in 1..Len(s) : s[k] > 127}
    IN  IF at = {} THEN s
        ELSE LET i == CHOOSE k \in at : \A j \in at : k <= j
             IN  SubSeq(s, 1, i - 1) \o utf8_bytes(s[i])
                 \o encode_utf8(SubSeq(s, i + 1, Len(s)))

\* encodings the locale may give open() and sys.stdout: UTF-8, ASCII under
\* the C locale, and ISO-8859-1 for the single-byte encodings
Encodings == {"utf-8", "ascii", "latin-1"}

\* str.encode(enc), strict: ASCII raises on a character above 127, Latin-1
\* on one above 255, and either writes any other character as the one byte
\* of its code point
encode(enc, s) ==
    IF enc = "ascii"
    THEN IF \E k \in 1..Len(s) : s[k] > 127 THEN Raise(s) ELSE Return(s)
    ELSE IF enc = "latin-1"
    THEN IF \E k \in 1..Len(s) : s[k] > 255 THEN Raise(s) ELSE Return(s)
    ELSE Return(encode_utf8(s))

-----------------------------------------------------------------------------
(* Ordering of str values and sorted() *)

RECURSIVE first_diff(_, _, _)
\* first position from i on where a and b differ (or one of them has ended)
first_diff(a, b, i) ==
    IF i > Len(a) \/ i > Len(b) \/ a[i] # b[i] THEN i
    ELSE first_diff(a, b, i + 1)

\* a < b for two str values: code point by code point, a proper prefix first
str_lt(a, b) ==
    LET i == first_diff(a, b, 1)
    IN  IF i > Len(b) THEN FALSE
        ELSE IF i > Len(a) THEN TRUE
        ELSE a[i] < b[i]

RECURSIVE insert_sorted(_, _)
insert_sorted(x, s) ==
    IF s = <<>> THEN <<x>>
    ELSE IF str_lt(x, s[1]) THEN <<x>> \o s
    ELSE <<s[1]>> \o insert_sorted(x, Tail(s))

RECURSIVE sorted(_)
\* sorted(list): ascending, stable
sorted(s) ==
    IF s = <<>> THEN <<>>
    ELSE insert_sorted(s[Len(s)], sorted(SubSeq(s, 1, Len(s) - 1)))

\* set(list)
set_of(s) == {s[i] : i \in 1..Len(s)}

\* list(a_set): the elements once each, in an order Python does not fix
list_of(S) ==
    {s \in [1..Cardinality(S) -> S] : \A x \in S : \E i \in DOMAIN s : s[i] = x}

-----------------------------------------------------------------------------
(* The columns, lines 51-74, and the templates, lines 75-103 *)

sql_fields ==
    << "origin_url", "action_url", "username_element", "username_value",
       "password_element", "password_value", "submit_element", "signon_realm",
       "preferred", "date_created", "blacklisted_by_user", "scheme",
       "password_type", "times_used", "form_data", "date_synced",
       "display_name", "icon_url", "federation_url", "skip_zero_click",
       "generation_upload_status", "possible_username_pairs" >>

\* '<xml><entries ext="Password Exporter" extxmlversion="1.1" type="saved" encrypt="false">\n'
passlist_tpl_head ==
    <<60, 120, 109, 108, 62, 60, 101, 110, 116, 114, 105, 101, 115, 32, 101,
      120, 116, 61, 34, 80, 97, 115, 115, 119, 111, 114, 100, 32, 69, 120,
      112, 111, 114, 116, 101, 114, 34, 32, 101, 120, 116, 120, 109, 108,
      118, 101, 114, 115, 105, 111, 110, 61, 34, 49, 46, 49, 34, 32, 116,
      121, 112, 101, 61, 34, 115, 97, 118, 101, 100, 34, 32, 101, 110, 99,
      114, 121, 112, 116, 61, 34, 102, 97, 108, 115, 101, 34, 62, 10>>

\* '<xml><entries ext="Password Exporter" extxmlversion="1.0.2" type="rejected">\n'
blacklist_tpl_head ==
    <<60, 120, 109, 108, 62, 60, 101, 110, 116, 114, 105, 101, 115, 32, 101,
      120, 116, 61, 34, 80, 97, 115, 115, 119, 111, 114, 100, 32, 69, 120,
      112, 111, 114, 116, 101, 114, 34, 32, 101, 120, 116, 120, 109, 108,
      118, 101, 114, 115, 105, 111, 110, 61, 34, 49, 46, 48, 46, 50, 34, 32,
      116, 121, 112, 101, 61, 34, 114, 101, 106, 101, 99, 116, 101, 100, 34,
      62, 10>>

\* '</entries></xml>\n'
tpl_tail ==
    <<60, 47, 101, 110, 116, 114, 105, 101, 115, 62, 60, 47, 120, 109, 108,
      62, 10>>

\* passlist_tpl.format(body)
passlist_tpl(body) == passlist_tpl_head \o body \o tpl_tail

\* blacklist_tpl.format(body)
blacklist_tpl(body) == blacklist_tpl_head \o body \o tpl_tail

\* '<entry host="'
lit_entry_host == <<60, 101, 110, 116, 114, 121, 32, 104, 111, 115, 116, 61, 34>>
\* '" user="'
lit_user == <<34, 32, 117, 115, 101, 114, 61, 34>>
\* '" password="'
lit_password == <<34, 32, 112, 97, 115, 115, 119, 111, 114, 100, 61, 34>>
\* '" formSubmitURL="'
lit_formSubmitURL ==
    <<34, 32, 102, 111, 114, 109, 83, 117, 98, 109, 105, 116, 85, 82, 76, 61, 34>>
\* '" httpRealm="'
lit_httpRealm == <<34, 32, 104, 116, 116, 112, 82, 101, 97, 108, 109, 61, 34>>
\* '" userFieldName="'
lit_userFieldName ==
    <<34, 32, 117, 115, 101, 114, 70, 105, 101, 108, 100, 78, 97, 109, 101, 61, 34>>
\* '" passFieldName="'
lit_passFieldName ==
    <<34, 32, 112, 97, 115, 115, 70, 105, 101, 108, 100, 78, 97, 109, 101, 61, 34>>
\* '" />\n'
lit_entry_end == <<34, 32, 47, 62, 10>>
\* '"/>\n'
lit_blackrow_end == <<34, 47, 62, 10>>

\* row_tpl.format(**row)
row_tpl(r) ==
    lit_entry_host \o format_value(r.origin_url)
    \o lit_user \o format_value(r.username_value)
    \o lit_password \o format_value(r.password_value)
    \o lit_formSubmitURL \o format_value(r.action_url)
    \o lit_userFieldName \o format_value(r.username_element)
    \o lit_passFieldName \o format_value(r.password_element)
    \o lit_entry_end

\* row_realm_tpl.format(**row)
row_realm_tpl(r) ==
    lit_entry_host \o format_value(r.origin_url)
    \o lit_user \o format_value(r.username_value)
    \o lit_password \o format_value(r.password_value)
    \o lit_httpRealm \o format_value(r.signon_realm)
    \o lit_userFieldName \o format_value(r.username_element)
    \o lit_passFieldName \o format_value(r.password_element)
    \o lit_entry_end

\* the blocked entry rendered with the saved-credential template
blackrow_tpl_as_saved(r) == row_tpl(r)

\* blackrow_tpl.format(**row)
blackrow_tpl(r) ==
    lit_entry_host \o format_value(r.origin_url) \o lit_blackrow_end

\* 'passlist.xml'
passlist_filepath == <<112, 97, 115, 115, 108, 105, 115, 116, 46, 120, 109, 108>>
\* 'blacklist.xml'
blacklist_filepath ==
    <<98, 108, 97, 99, 107, 108, 105, 115, 116, 46, 120, 109, 108>>

\* "Written {} entries to {}".format(n, path)
written_msg(n, path) ==
    <<87, 114, 105, 116, 116, 101, 110, 32>> \o decimal(n)
    \o <<32, 101, 110, 116, 114, 105, 101, 115, 32, 116, 111, 32>> \o path

-----------------------------------------------------------------------------
(* strip_path, lines 106-111 *)

\* 'http'
lit_http == <<104, 116, 116, 112>>
\* 'chrome:'
lit_chrome == <<99, 104, 114, 111, 109, 101, 58>>
\* '/'
lit_slash == <<47>>
\* 'Unexpected url: '
lit_unexpected ==
    <<85, 110, 101, 120, 112, 101, 99, 116, 101, 100, 32, 117, 114, 108, 58, 32>>

\* strip_path without its raise: any other scheme is passed through
strip_path_lenient(u) ==
    IF ~Truthy(u) THEN Return(u)
    ELSE IF startswith(u, lit_http)
         THEN Return(join(lit_slash, slice0(split(u, lit_slash[1]), 3)))
         ELSE Return(u)

\* strip_path keeping the host alone: url.split('/')[2]
strip_path_host_only(u) ==
    IF ~Truthy(u) THEN Return(u)
    ELSE IF startswith(u, lit_http)
         THEN LET parts == split(u, lit_slash[1])
              IN  Return(IF Len(parts) >= 3 THEN parts[3] ELSE <<>>)
         ELSE Raise(lit_unexpected \o u)

strip_path(u) ==
    IF ~Truthy(u) THEN Return(u)
    ELSE IF startswith(u, lit_http)
         THEN Return(join(lit_slash, slice0(split(u, lit_slash[1]), 3)))
         ELSE Raise(lit_unexpected \o u)

-----------------------------------------------------------------------------
(* The loop body, lines 121-154, as a function of the fetched row.  A row   *)
(* carries the columns the script consumes; the other columns of            *)
(* sql_fields are copied into the dict and never read, and are NULL in the  *)
(* stores modelled.                                                         *)

\* repr() of column field of the tuple dbrow: the blocked flag is an int,
\* the password a bytes value, any other column a str or None
repr_column(d, field) ==
    IF field \notin DOMAIN d THEN <<78, 111, 110, 101>>       \* 'None'
    ELSE IF field = "blacklisted_by_user" THEN decimal(d[field])
    ELSE IF d[field] = NoneVal THEN <<78, 111, 110, 101>>
    ELSE IF field = "password_value" THEN repr_bytes(d[field])
    ELSE repr_str(d[field])

\* str(dbrow), the text line 135 prints: the repr of the columns between
\* parentheses, ', ' between them
repr_dbrow(d) ==
    <<40>>
    \o join(<<44, 32>>,
            [i \in 1..Len(sql_fields) |-> repr_column(d, sql_fields[i])])
    \o <<41>>

\* the filter reading the wrong column: dbrow[1].startswith('chrome:')
is_internal_wrong_column(d) == startswith(d.action_url, lit_chrome)

\* line 126: dbrow[0].startswith('chrome:')
is_internal(d) == startswith(d.origin_url, lit_chrome)

\* line 140: if row['blacklisted_by_user']
is_blacklisted(r) == r.blacklisted_by_user # 0

\* line 145: if not row['action_url']
uses_realm(r) == ~Truthy(r.action_url)

\* lines 145-152: the saved-credential rendering
render_saved(r) == IF uses_realm(r) THEN row_realm_tpl(r) ELSE row_tpl(r)

\* lines 121-154: what one iteration does with row d: how it ends, the dict
\* row as it leaves it, the rendered entry or the exception's message, and
\* the line of the loop body that ends it
loop_body(d) ==
    IF is_internal(d)
    THEN [outcome |-> "continue", row |-> d, out |-> <<>>, line |-> 128]
    ELSE LET o == strip_path(d.origin_url)
             r1 == [d EXCEPT !.origin_url = o.value]
             a == strip_path(r1.action_url)
             r2 == [r1 EXCEPT !.action_url = a.value]
             p == decode_utf8(r2.password_value)
             r3 == [r2 EXCEPT !.password_value = p.value]
         IN  IF o.raised
             THEN [outcome |-> "raise_url", row |-> d, out |-> o.value,
                   line |-> 132]
             ELSE IF a.raised
             THEN [outcome |-> "raise_url", row |-> r1, out |-> a.value,
                   line |-> 133]
             ELSE IF p.raised
             THEN [outcome |-> "raise_decode", row |-> r2, out |-> <<>>,
                   line |-> 138]
             ELSE IF is_blacklisted(r3)
             THEN [outcome |-> "blacklist", row |-> r3,
                   out |-> blackrow_tpl(r3), line |-> 143]
             ELSE [outcome |-> "passlist", row |-> r3,
                   out |-> render_saved(r3), line |-> 154]

\* sorted(lst): the duplicates kept
sorted_with_duplicates(lst) == {sorted(lst)}

\* lines 164-165: sorted(list(set(lst))); list(set(..)) has no fixed order,
\* so this is the set of lists the expression may give
sorted_unique(lst) == {sorted(l) : l \in list_of(set_of(lst))}

\* ''.join(lst)
concat(lst) == join(<<>>, lst)

-----------------------------------------------------------------------------
(* Inputs *)

MaxRows == 2
MaxTail == 5

MkRow(o, a, u, pw, b) ==
    [origin_url |-> o, action_url |-> a,
     username_element |-> <<101>>,          \* 'e'
     username_value |-> u,
     password_element |-> <<102>>,          \* 'f'
     password_value |-> pw,
     signon_realm |-> <<104, 116, 116, 112, 58, 47, 47, 97, 47>>, \* 'http://a/'
     blacklisted_by_user |-> b]

url_a_p == <<104, 116, 116, 112, 58, 47, 47, 97, 47, 112>>    \* 'http://a/p'
url_a_q == <<104, 116, 116, 112, 58, 47, 47, 97, 47, 113>>    \* 'http://a/q'
url_a_s == <<104, 116, 116, 112, 58, 47, 47, 97, 47, 115>>    \* 'http://a/s'
\* 'https://b:8/x?y#z': port, path, query and fragment
url_b_x ==
    <<104, 116, 116, 112, 115, 58, 47, 47, 98, 58, 56, 47, 120, 63, 121, 35, 122>>
\* 'https://b?\xe9': a query right after the host, a character outside ASCII
url_b_e == <<104, 116, 116, 112, 115, 58, 47, 47, 98, 63, 233>>
url_chrome == <<99, 104, 114, 111, 109, 101, 58, 47, 47, 115>> \* 'chrome://s'
url_ftp_o == <<102, 116, 112, 58, 47, 47, 111>>               \* 'ftp://o'
url_ftp_x == <<102, 116, 112, 58, 47, 47, 120>>               \* 'ftp://x'
user_u == <<117>>                                             \* 'u'
\* 'x" httpRealm="y': a user name that holds markup
user_markup ==
    <<120, 34, 32, 104, 116, 116, 112, 82, 101, 97, 108, 109, 61, 34, 121>>
\* '\xe9\'q': a user name outside ASCII that holds a single quote
user_quote == <<233, 39, 113>>
pw_p == <<112>>                                               \* b'p'
pw_e == <<195, 169>>                                          \* b'\xc3\xa9'
\* b'\xe2\x82\xac': U+20AC, which ISO-8859-1 does not have
pw_euro == <<226, 130, 172>>
pw_bad == <<255>>                                             \* b'\xff', not UTF-8

\* two pages of one site saved with the same credential, the one with a
\* NULL and the other with an empty action URL, the password outside
\* ISO-8859-1
SavedRows ==
    { MkRow(url_a_p, NoneVal, user_u, pw_euro, 0),
      MkRow(url_a_q, <<>>, user_u, pw_euro, 0) }

\* a blocked site with an action URL; its origin is outside ASCII and within
\* ISO-8859-1
BlockedRows ==
    { MkRow(url_b_e, url_a_s, user_u, pw_p, 1) }

\* a row the scan aborts on for its origin, which is of another scheme; the
\* user name is outside ASCII and holds a quote
OtherOriginRows ==
    { MkRow(url_ftp_o, <<>>, user_quote, pw_p, 0) }

\* blocked rows the scan aborts on: an action URL of another scheme, a
\* password that is not UTF-8
RejectedBlockedRows ==
    { MkRow(url_a_p, url_ftp_x, user_u, pw_bad, 1),
      MkRow(url_a_p, <<>>, user_u, pw_bad, 1) }

RejectedRows == OtherOriginRows \cup RejectedBlockedRows

\* a row of the store's own pages, with an action URL and a password the
\* scan would reject on any other row
InternalRows ==
    { MkRow(url_chrome, url_ftp_x, user_u, pw_bad, 1) }

\* further rows for the read phase: saved with a form action, saved and
\* blocked with a user name that holds markup, blocked without an action
\* URL, a password that is not UTF-8 on a row that is not blocked
MoreRows ==
    { MkRow(url_b_x, url_a_s, user_u, pw_p, 0),
      MkRow(url_a_p, url_a_s, user_markup, pw_p, 0),
      MkRow(url_a_q, url_a_s, user_markup, pw_e, 1),
      MkRow(url_a_p, <<>>, user_u, pw_p, 1),
      MkRow(url_a_p, <<>>, user_u, pw_bad, 0) }

\* the rows of the stores the read phase alone is followed on: those above
\* but the rows of another origin scheme, which end a run as the blocked
\* row with such an action URL does
ScanRows ==
    SavedRows \cup BlockedRows \cup RejectedBlockedRows \cup InternalRows
        \cup MoreRows

\* the table holds up to MaxRows of the rows given
IsStore(S, rows) ==
    \E n \in 0..MaxRows : \E s \in [1..n -> rows] : S = {s[i] : i \in 1..n}

\* the stores a whole run is followed on: saved pages or blocked sites, with
\* or without rows the scan rejects (stores that mix saved and blocked rows
\* are followed through the read phase, where the two lists are built)
IsWholeRunStore(S) ==
    \/ IsStore(S, SavedRows \cup RejectedRows)
    \/ IsStore(S, BlockedRows \cup RejectedRows)

\* arguments of strip_path for the harness: a scheme-like prefix followed by
\* up to MaxTail characters of  / ? # : a
UrlPrefixes ==
    { <<>>,
      <<104, 116, 116, 112, 58>>,                        \* 'http:'
      <<104, 116, 116, 112, 115, 58>>,                   \* 'https:'
      <<102, 116, 112, 58>> }                            \* 'ftp:'

TailChars == {47, 63, 35, 58, 97}

IsUrlInput(u) ==
    \/ u = NoneVal
    \/ \E p \in UrlPrefixes : \E n \in 0..MaxTail :
          \E t \in [1..n -> TailChars] : u = p \o t

-----------------------------------------------------------------------------
(* State *)

\* how the interpreter sets up sys.stdout: unbuffered under -u or
\* PYTHONUNBUFFERED, line-buffered on a terminal, block-buffered on a file
\* or a pipe
Bufferings == {"none", "line", "block"}

Unbound == [unbound |-> TRUE]

\* an exception: its class, its message where the script builds it, the
\* filename attribute (None unless open() raised it) and the line of the
\* script whose statement raised it
Exc(type, msg, filename, line) ==
    [type |-> type, msg |-> msg, filename |-> filename, line |-> line]

NoExc == Exc("none", <<>>, NoneVal, 0)

NoFile == [handle |-> "none", exists |-> FALSE, buf |-> <<>>, disk |-> <<>>]

NotCalled == [raised |-> FALSE, value |-> <<-2>>]

FilePaths == {passlist_filepath, blacklist_filepath}

HarnessIdle == url = <<>> /\ res1 = NotCalled /\ res2 = NotCalled

\* the script before its first statement, lines 113-117
Start ==
    /\ pc = "connect"
    /\ conn = "none"
    /\ txn = "none"
    /\ remaining = {}
    /\ dbrow = Unbound
    /\ row = Unbound
    /\ passlist = <<>>
    /\ blacklist = <<>>
    /\ files = [f \in FilePaths |-> NoFile]
    /\ stdout = <<>>
    /\ outbuf = <<>>
    /\ exc = NoExc
    /\ HarnessIdle

Init ==
    /\ encoding \in Encodings
    /\ buffering \in Bufferings
    /\ IsWholeRunStore(store)
    /\ Start

harness == <<url, res1, res2>>

\* what print(text) hands to sys.stdout: the text and the newline that ends
\* it, in the locale's encoding
print_bytes(text) == encode(encoding, text \o <<10>>)

\* what an operation the OS refuses part of the way may have let through:
\* any proper prefix of the bytes
Partial(bytes) == {SubSeq(bytes, 1, n) : n \in 0..(Len(bytes) - 1)}

\* print() of these bytes returns.  Block-buffered, they stay in the buffer
\* of sys.stdout, which is far larger than what one run of the script
\* prints on the stores followed here; otherwise the newline sends them to
\* stdout before print returns
print_returns(bytes) ==
    IF buffering = "block"
    THEN stdout' = stdout /\ outbuf' = outbuf \o bytes
    ELSE stdout' = stdout \o bytes /\ outbuf' = outbuf

\* print() of these bytes raises OSError: stdout refuses them, all or from
\* some byte on.  This happens when print itself writes to stdout, so not
\* block-buffered; line-buffered, what was refused stays in the buffer
print_refused(bytes) ==
    /\ buffering # "block"
    /\ \E n \in 0..(Len(bytes) - 1) :
          /\ stdout' = stdout \o SubSeq(bytes, 1, n)
          /\ outbuf' = IF buffering = "line"
                       THEN SubSeq(bytes, n + 1, Len(bytes))
                       ELSE outbuf

-----------------------------------------------------------------------------
(* Read phase, lines 119-154 *)

\* line 119: sqlite3.connect('./Login Data')
Connect ==
    /\ pc = "connect"
    /\ conn' = "open"
    /\ pc' = "execute"
    /\ UNCHANGED <<inputs, txn, remaining, dbrow, row, passlist, blacklist,
                   files, stdout, outbuf, exc, harness>>

\* line 119: connect raises (the file cannot be opened)
ConnectFails ==
    /\ pc = "connect"
    /\ exc' = Exc("OperationalError", <<>>, NoneVal, 119)
    /\ pc' = "error"
    /\ UNCHANGED <<inputs, conn, txn, remaining, dbrow, row, passlist,
                   blacklist, files, stdout, outbuf, harness>>

\* line 120: c.execute('SELECT * from logins')
Execute ==
    /\ pc = "execute"
    /\ remaining' = store
    /\ pc' = "scan"
    /\ UNCHANGED <<inputs, conn, txn, dbrow, row, passlist, blacklist, files,
                   stdout, outbuf, exc, harness>>

\* line 120: execute raises OperationalError (no table logins) or its
\* superclass DatabaseError (the file is not a database); the with
\* statement's __exit__ rolls back and leaves the connection open
ExecuteFails ==
    /\ pc = "execute"
    /\ \E type \in {"OperationalError", "DatabaseError"} :
          exc' = Exc(type, <<>>, NoneVal, 120)
    /\ txn' = "rollback"
    /\ pc' = "error"
    /\ UNCHANGED <<inputs, conn, remaining, dbrow, row, passlist, blacklist,
                   files, stdout, outbuf, harness>>

\* lines 120-154: one iteration of the for loop, on whichever row the cursor
\* yields next.  When strip_path raises, line 135 prints the row before the
\* exception is raised again.  A print that stdout refuses raises OSError
\* in its place and leaves on stdout what was let through before; a row
\* the encoding of stdout cannot show raises UnicodeEncodeError with
\* nothing printed or buffered
FetchRow ==
    /\ pc = "scan"
    /\ \E d \in remaining :
         LET b == loop_body(d)
         IN  /\ remaining' = remaining \ {d}
             /\ dbrow' = d
             /\ row' = b.row
             /\ passlist' = IF b.outcome = "passlist"
                            THEN Append(passlist, b.out) ELSE passlist
             /\ blacklist' = IF b.outcome = "blacklist"
                             THEN Append(blacklist, b.out) ELSE blacklist
             /\ \/ /\ b.outcome = "raise_url"
                   /\ LET shown == print_bytes(repr_dbrow(d))
                      IN  \/ /\ ~shown.raised
                             /\ print_returns(shown.value)
                             /\ exc' = Exc("Exception", b.out, NoneVal, b.line)
                          \/ /\ ~shown.raised
                             /\ print_refused(shown.value)
                             /\ exc' = Exc("OSError", <<>>, NoneVal, 135)
                          \/ /\ shown.raised
                             /\ UNCHANGED <<stdout, outbuf>>
                             /\ exc' = Exc("UnicodeEncodeError", <<>>,
                                           NoneVal, 135)
                \/ /\ b.outcome = "raise_decode"
                   /\ UNCHANGED <<stdout, outbuf>>
                   /\ exc' = Exc("UnicodeDecodeError", <<>>, NoneVal, b.line)
                \/ /\ b.outcome \notin {"raise_url", "raise_decode"}
                   /\ UNCHANGED <<stdout, outbuf>>
                   /\ exc' = exc
             /\ txn' = IF b.outcome \in {"raise_url", "raise_decode"}
                       THEN "rollback" ELSE txn
             /\ pc' = IF b.outcome \in {"raise_url", "raise_decode"}
                      THEN "error" ELSE "scan"
    /\ UNCHANGED <<inputs, conn, files, harness>>

\* line 120: the cursor raises when the for statement asks it for the next
\* row (a damaged page, a locked database), whatever rows are left; the
\* with statement's __exit__ rolls back and leaves the connection open
FetchFails ==
    /\ pc = "scan"
    /\ \E type \in {"OperationalError", "DatabaseError"} :
          exc' = Exc(type, <<>>, NoneVal, 120)
    /\ txn' = "rollback"
    /\ pc' = "error"
    /\ UNCHANGED <<inputs, conn, remaining, dbrow, row, passlist,
                   blacklist, files, stdout, outbuf, harness>>

\* line 119: the cursor is exhausted and the with block ends:
\* Connection.__exit__ commits; it does not close the connection
ScanEnd ==
    /\ pc = "scan"
    /\ remaining = {}
    /\ txn' = "commit"
    /\ pc' = "dedup"
    /\ UNCHANGED <<inputs, conn, remaining, dbrow, row, passlist, blacklist,
                   files, stdout, outbuf, exc, harness>>

\* lines 164-165
DedupSort ==
    /\ pc = "dedup"
    /\ passlist' \in sorted_unique(passlist)
    /\ blacklist' \in sorted_unique(blacklist)
    /\ pc' = "open_passlist"
    /\ UNCHANGED <<inputs, conn, txn, remaining, dbrow, row, files, stdout, outbuf,
                   exc, harness>>

-----------------------------------------------------------------------------
(* Write phase, lines 167-175.  A text file opened with 'w' is created or  *)
(* truncated by open().  write() encodes the document with the locale's    *)
(* encoding, which may refuse a character, and leaves the bytes in the     *)
(* file object's buffer: a document shorter than that buffer, as every     *)
(* document of the stores modelled here is, reaches the disk only when the *)
(* with block closes the file, also when it is left by an exception.  The  *)
(* OSError of open() carries the path as its filename, that of the close   *)
(* none; both are raised at the line of the with statement.                *)

\* the line of the with statement that opens file f
with_line(f) == IF f = passlist_filepath THEN 167 ELSE 172

\* the line of the write to file f
write_line(f) == IF f = passlist_filepath THEN 168 ELSE 173

\* the line of the print that reports file f
print_line(f) == IF f = passlist_filepath THEN 169 ELSE 174

\* the OSError of a failed open(f, 'w')
OpenError(f) == Exc("OSError", <<>>, f, with_line(f))

\* the OSError of a failed flush when file f is closed
CloseError(f) == Exc("OSError", <<>>, NoneVal, with_line(f))

\* file f after its close: nothing buffered, these bytes on disk
Closed(bytes) ==
    [handle |-> "closed", exists |-> TRUE, buf |-> <<>>, disk |-> bytes]

\* the document written to file f, lines 168 and 173
document(f) ==
    IF f = passlist_filepath
    THEN passlist_tpl(concat(passlist))
    ELSE blacklist_tpl(concat(blacklist))

\* the count printed for file f, lines 169-170 and 174-175
count_line(f) ==
    IF f = passlist_filepath
    THEN written_msg(Len(passlist), passlist_filepath)
    ELSE written_msg(Len(blacklist), blacklist_filepath)

Open(f, at, to) ==
    /\ pc = at
    /\ files' = [files EXCEPT ![f] = [handle |-> "open", exists |-> TRUE,
                                      buf |-> <<>>, disk |-> <<>>]]
    /\ pc' = to
    /\ UNCHANGED <<inputs, conn, txn, remaining, dbrow, row, passlist,
                   blacklist, stdout, outbuf, exc, harness>>

\* a failed open swallowed: the script goes on to the next file
OpenFails_swallowed(f, at) ==
    /\ pc = at
    /\ pc' = IF at = "open_passlist" THEN "open_blacklist" ELSE "done"
    /\ UNCHANGED <<inputs, conn, txn, remaining, dbrow, row, passlist,
                   blacklist, files, stdout, outbuf, exc, url, res1, res2>>

OpenFails(f, at) ==
    /\ pc = at
    /\ exc' = OpenError(f)
    /\ pc' = "error"
    /\ UNCHANGED <<inputs, conn, txn, remaining, dbrow, row, passlist,
                   blacklist, files, stdout, outbuf, harness>>

\* write() encodes the document into the buffer
WriteDoc(f, at, to) ==
    /\ pc = at
    /\ ~encode(encoding, document(f)).raised
    /\ files' = [files EXCEPT ![f].buf = encode(encoding, document(f)).value]
    /\ pc' = to
    /\ UNCHANGED <<inputs, conn, txn, remaining, dbrow, row, passlist,
                   blacklist, stdout, outbuf, exc, harness>>

\* write() raises on a character the encoding does not have; the with
\* block closes the file, which stays as open() left it
WriteFails(f, at) ==
    /\ pc = at
    /\ encode(encoding, document(f)).raised
    /\ files' = [files EXCEPT ![f] = Closed(<<>>)]
    /\ exc' = Exc("UnicodeEncodeError", <<>>, NoneVal, write_line(f))
    /\ pc' = "error"
    /\ UNCHANGED <<inputs, conn, txn, remaining, dbrow, row, passlist,
                   blacklist, stdout, outbuf, harness>>

\* the count line is ASCII, which every encoding of stdout can show
PrintCount(f, at, to) ==
    /\ pc = at
    /\ print_returns(print_bytes(count_line(f)).value)
    /\ pc' = to
    /\ UNCHANGED <<inputs, conn, txn, remaining, dbrow, row, passlist,
                   blacklist, files, exc, harness>>

\* print raises (stdout refuses the line, and holds what was let through
\* before) and the with block closes the file on the way out: the flush of
\* the file succeeds and the OSError of print ends the run, or that flush
\* fails too and its OSError does
PrintFails(f, at) ==
    /\ pc = at
    /\ print_refused(print_bytes(count_line(f)).value)
    /\ \/ /\ files' = [files EXCEPT ![f] = Closed(files[f].buf)]
          /\ exc' = Exc("OSError", <<>>, NoneVal, print_line(f))
       \/ /\ \E part \in Partial(files[f].buf) :
                files' = [files EXCEPT ![f] = Closed(part)]
          /\ exc' = CloseError(f)
    /\ pc' = "error"
    /\ UNCHANGED <<inputs, conn, txn, remaining, dbrow, row, passlist,
                   blacklist, harness>>

Close(f, at, to) ==
    /\ pc = at
    /\ files' = [files EXCEPT ![f] = Closed(files[f].buf)]
    /\ pc' = to
    /\ UNCHANGED <<inputs, conn, txn, remaining, dbrow, row, passlist,
                   blacklist, stdout, outbuf, exc, harness>>

CloseFails(f, at) ==
    /\ pc = at
    /\ \E part \in Partial(files[f].buf) :
         files' = [files EXCEPT ![f] = Closed(part)]
    /\ exc' = CloseError(f)
    /\ pc' = "error"
    /\ UNCHANGED <<inputs, conn, txn, remaining, dbrow, row, passlist,
                   blacklist, stdout, outbuf, harness>>

\* the interpreter exits, after the last statement or the uncaught
\* exception: it flushes sys.stdout, and stdout takes what the buffer holds
\* or refuses it, all or from some byte on; a refusal is reported on stderr
\* and makes the exit status 120, and what was refused is lost.  With
\* nothing in the buffer the flush writes nothing
Exit ==
    /\ pc \in {"done", "error"}
    /\ outbuf # <<>>
    /\ \E n \in 0..Len(outbuf) : stdout' = stdout \o SubSeq(outbuf, 1, n)
    /\ outbuf' = <<>>
    /\ UNCHANGED <<inputs, pc, conn, txn, remaining, dbrow, row, passlist,
                   blacklist, files, exc, harness>>

\* line 167
OpenPasslist == Open(passlist_filepath, "open_passlist", "write_passlist")
OpenPasslistFails == OpenFails(passlist_filepath, "open_passlist")
\* line 168
WritePasslist == WriteDoc(passlist_filepath, "write_passlist", "print_passlist")
WritePasslistFails == WriteFails(passlist_filepath, "write_passlist")
\* lines 169-170
PrintPasslist == PrintCount(passlist_filepath, "print_passlist", "close_passlist")
PrintPasslistFails == PrintFails(passlist_filepath, "print_passlist")
\* end of the with block of line 167
ClosePasslist == Close(passlist_filepath, "close_passlist", "open_blacklist")
ClosePasslistFails == CloseFails(passlist_filepath, "close_passlist")
\* line 172
OpenBlacklist == Open(blacklist_filepath, "open_blacklist", "write_blacklist")
OpenBlacklistFails == OpenFails(blacklist_filepath, "open_blacklist")
\* line 173
WriteBlacklist == WriteDoc(blacklist_filepath, "write_blacklist", "print_blacklist")
WriteBlacklistFails == WriteFails(blacklist_filepath, "write_blacklist")
\* lines 174-175
PrintBlacklist == PrintCount(blacklist_filepath, "print_blacklist", "close_blacklist")
PrintBlacklistFails == PrintFails(blacklist_filepath, "print_blacklist")
\* end of the with block of line 172
CloseBlacklist == Close(blacklist_filepath, "close_blacklist", "done")
CloseBlacklistFails == CloseFails(blacklist_filepath, "close_blacklist")

Next ==
    \/ Connect
    \/ ConnectFails
    \/ Execute
    \/ ExecuteFails
    \/ FetchRow
    \/ FetchFails
    \/ ScanEnd
    \/ DedupSort
    \/ OpenPasslist
    \/ OpenPasslistFails
    \/ WritePasslist
    \/ WritePasslistFails
    \/ PrintPasslist
    \/ PrintPasslistFails
    \/ ClosePasslist
    \/ ClosePasslistFails
    \/ OpenBlacklist
    \/ OpenBlacklistFails
    \/ WriteBlacklist
    \/ WriteBlacklistFails
    \/ PrintBlacklist
    \/ PrintBlacklistFails
    \/ CloseBlacklist
    \/ CloseBlacklistFails
    \/ Exit

Spec == Init /\ [][Next]_vars

-----------------------------------------------------------------------------
(* The read phase on its own, lines 119-154, on stores of more kinds of    *)
(* rows: the script is followed up to the end of the with block, or to the *)
(* statement that raises.                                                  *)

InitScan ==
    /\ encoding \in Encodings
    /\ buffering \in Bufferings
    /\ IsStore(store, ScanRows)
    /\ Start

NextScan ==
    \/ Connect
    \/ ConnectFails
    \/ Execute
    \/ ExecuteFails
    \/ FetchRow
    \/ FetchFails
    \/ ScanEnd

SpecScan == InitScan /\ [][NextScan]_vars

-----------------------------------------------------------------------------
(* strip_path on its own: the argument is one that IsUrlInput allows, the  *)
(* function is applied, and applied again to what it returned.             *)

InitStrip ==
    /\ IsUrlInput(url)
    /\ encoding = "utf-8"
    /\ res1 = NotCalled
    /\ res2 = NotCalled
    /\ store = {}
    /\ pc = "strip"
    /\ conn = "none"
    /\ txn = "none"
    /\ remaining = {}
    /\ dbrow = Unbound
    /\ row = Unbound
    /\ passlist = <<>>
    /\ blacklist = <<>>
    /\ files = [f \in FilePaths |-> NoFile]
    /\ buffering = "block"
    /\ stdout = <<>>
    /\ outbuf = <<>>
    /\ exc = NoExc

CallStrip ==
    /\ pc = "strip"
    /\ res1' = strip_path(url)
    /\ pc' = IF res1'.raised THEN "raised" ELSE "strip_again"
    /\ UNCHANGED <<inputs, conn, txn, remaining, dbrow, row, passlist,
                   blacklist, files, stdout, outbuf, exc, url, res2>>

CallStripAgain ==
    /\ pc = "strip_again"
    /\ res2' = strip_path(res1.value)
    /\ pc' = IF res2'.raised THEN "raised_again" ELSE "returned"
    /\ UNCHANGED <<inputs, conn, txn, remaining, dbrow, row, passlist,
                   blacklist, files, stdout, outbuf, exc, url, res1>>

NextStrip ==
    \/ CallStrip
    \/ CallStripAgain

SpecStrip == InitStrip /\ [][NextStrip]_vars

-----------------------------------------------------------------------------
(* Vocabulary of the properties *)

\* rows the cursor has yielded so far
Fetched == store \ remaining

\* a non-empty URL that does not start with an HTTP-family scheme
OtherScheme(u) == Truthy(u) /\ ~startswith(u, lit_http)

\* a row that is not store-internal and has such an origin or action URL
Offending(d) ==
    /\ ~startswith(d.origin_url, lit_chrome)
    /\ OtherScheme(d.origin_url) \/ OtherScheme(d.action_url)

\* neither output file was created, opened or written
FilesUntouched == \A f \in FilePaths : files[f] = NoFile

\* s occurs in text
Contains(text, s) ==
    \E i \in 1..(Len(text) - Len(s) + 1) : SubSeq(text, i, i + Len(s) - 1) = s

\* ' formSubmitURL="'
attr_formSubmitURL == Tail(lit_formSubmitURL)
\* ' httpRealm="'
attr_httpRealm == Tail(lit_httpRealm)

Last(s) == s[Len(s)]

\* the run ended with the exception of the open, the write or the close of
\* file f
FailedOn(f) ==
    /\ exc.type \in {"OSError", "UnicodeEncodeError"}
    /\ exc.line \in {with_line(f), write_line(f)}

\* file f was written completely and closed
Written(f) == files[f].handle = "closed" /\ ~FailedOn(f)

\* a is b cut short
IsProperPrefix(a, b) == Len(a) < Len(b) /\ a = SubSeq(b, 1, Len(a))

\* the bytes of the whole document of file f: what the file holds when it
\* was written completely
WholeDocument(f) == encode(encoding, document(f))

\* file f is closed and holds its whole document
Complete(f) ==
    /\ files[f].handle = "closed"
    /\ LET whole == WholeDocument(f)
       IN  ~whole.raised /\ files[f].disk = whole.value

\* file f is absent, or holds less than its whole document: nothing when the
\* document cannot be encoded, else a proper prefix of its bytes
Incomplete(f) ==
    \/ files[f] = NoFile
    \/ LET whole == WholeDocument(f)
       IN  IF whole.raised
           THEN files[f].disk = <<>>
           ELSE IsProperPrefix(files[f].disk, whole.value)

\* text holds a line, ended by its newline, that names path f
HasLineOf(text, f) ==
    \E i \in 1..(Len(text) - Len(f)) :
        /\ text[i] = f[1]
        /\ SubSeq(text, i, i + Len(f) - 1) = f
        /\ \E j \in (i + Len(f))..Len(text) : text[j] = 10

\* the count of file f was reported: it has reached stdout, as a whole line
Reported(f) == HasLineOf(stdout, f)

\* what print() has been given and was not refused for good: the bytes on
\* stdout and those the buffer of sys.stdout still holds
Shown == stdout \o outbuf

\* the count of file f was printed: it is on stdout or waits in the buffer
Printed(f) == HasLineOf(Shown, f)

\* the interpreter has flushed a block-buffered sys.stdout at its exit:
\* stdout holds what it took then, the whole of what was printed or less
FlushedAtExit ==
    buffering = "block" /\ pc \in {"done", "error"} /\ outbuf = <<>>

\* a is b, or b cut short
IsPrefix(a, b) == Len(a) <= Len(b) /\ a = SubSeq(b, 1, Len(a))

\* the two count lines of a run that ends normally, as print() encodes them
CountLines ==
    print_bytes(count_line(passlist_filepath)).value
        \o print_bytes(count_line(blacklist_filepath)).value

\* the entry lines of a written document, as the bytes on disk and each
\* with its newline: the lines between the container's head line and its
\* tail line
EntriesIn(doc) ==
    LET ends == {k \in 1..Len(doc) : doc[k] = 10}
        end(i) == CHOOSE k \in ends : Cardinality({j \in ends : j < k}) = i - 1
    IN  [i \in 1..(Cardinality(ends) - 2) |->
            SubSeq(doc, end(i) + 1, end(i + 1))]

\* the entries the rows of the store stand for in file f, whatever the order
\* they are read in
EntriesFor(f) ==
    { loop_body(d).out :
        d \in { x \in store : loop_body(x).outcome =
                    (IF f = passlist_filepath THEN "passlist" ELSE "blacklist") } }

\* the positions of the script after the read phase
PastScan ==
    {"dedup", "open_passlist", "write_passlist", "print_passlist",
     "close_passlist", "open_blacklist", "write_blacklist",
     "print_blacklist", "close_blacklist", "done"}

HeadOf(f) ==
    IF f = passlist_filepath THEN passlist_tpl_head ELSE blacklist_tpl_head

\* the blocked flag of a row is set
Blocked(d) == d.blacklisted_by_user # 0

\* a row that passes the filter, the scheme check of both URLs and the
\* decoding of the password
Accepted(d) ==
    /\ ~startswith(d.origin_url, lit_chrome)
    /\ ~OtherScheme(d.origin_url)
    /\ ~OtherScheme(d.action_url)
    /\ ~decode_utf8(d.password_value).raised

\* the cursor was opened: Fetched is the set of rows it has yielded
ScanStarted == pc \in {"scan", "dedup"} \/ (pc = "error" /\ dbrow # Unbound)

\* the blocked entry that holds the stripped origin of row d and nothing else
HostOnlyEntry(d) ==
    lit_entry_host \o strip_path(d.origin_url).value \o lit_blackrow_end

-----------------------------------------------------------------------------
(* Properties *)

\* C1: a store holding a record that is not store-internal and whose origin
\* or action URL is non-empty and does not start with http never gets past
\* the scan: the iteration that fetches the record ends the run with the
\* unexpected-url exception, or with the error of the print that shows the
\* record, and neither output file has been created, opened or written,
\* nor a count printed, wherever the record comes in the retrieval order.
C1_OtherSchemeAbortsBeforeOutput ==
    /\ (\E d \in store : Offending(d)) =>
          /\ pc \in {"connect", "execute", "scan", "error"}
          /\ FilesUntouched
          /\ \A f \in FilePaths : ~Printed(f)
          /\ pc = "scan" => \A d \in Fetched : ~Offending(d)
    /\ (dbrow # Unbound /\ Offending(dbrow)) =>
          /\ pc = "error"
          /\ \/ /\ exc.type = "Exception"
                /\ exc.msg \in { lit_unexpected \o dbrow.origin_url,
                                 lit_unexpected \o dbrow.action_url }
             \/ exc = Exc("OSError", <<>>, NoneVal, 135)
             \/ exc = Exc("UnicodeEncodeError", <<>>, NoneVal, 135)

\* C1 witness: a valid record was rendered first, the offending one came
\* second and the run has aborted
C1_Witness ==
    /\ pc = "error"
    /\ exc.type = "Exception"
    /\ Len(passlist) = 1
    /\ Offending(dbrow)
    /\ FilesUntouched

\* C2 as stated: every fetched row whose blocked flag is set, the rows of
\* the store's own pages aside, has given the blocked list the entry that
\* holds its stripped origin and nothing else, and has added nothing to the
\* saved list, whatever its action URL and its password bytes.
C2_BlockedHostOnly ==
    ScanStarted =>
      /\ Len(blacklist) =
            Cardinality({d \in Fetched :
                Blocked(d) /\ ~startswith(d.origin_url, lit_chrome)})
      /\ Len(passlist) <= Cardinality({d \in Fetched : ~Blocked(d)})
      /\ (/\ dbrow # Unbound
          /\ Blocked(dbrow)
          /\ ~startswith(dbrow.origin_url, lit_chrome)
          /\ ~OtherScheme(dbrow.origin_url)) =>
            /\ blacklist # <<>>
            /\ Last(blacklist) = HostOnlyEntry(dbrow)

\* C2 amended: a blocked row that passes the filter, the scheme check of
\* both URLs and the decoding of its password gives the blocked list the
\* entry that holds its stripped origin and nothing else, whatever its
\* user name, password, realm and field names, and adds nothing to the
\* saved list; a blocked row of the store's own pages is discarded, and any
\* other blocked row ends the run at the line that rejects it, with no
\* entry added.
C2_AcceptedBlockedHostOnly ==
    ScanStarted =>
      /\ Len(blacklist) =
            Cardinality({d \in Fetched : Accepted(d) /\ Blocked(d)})
      /\ Len(passlist) =
            Cardinality({d \in Fetched : Accepted(d) /\ ~Blocked(d)})
      /\ \A i \in 1..Len(blacklist) :
            \E d \in Fetched :
                Accepted(d) /\ Blocked(d) /\ blacklist[i] = HostOnlyEntry(d)
      /\ (dbrow # Unbound /\ Blocked(dbrow) /\ Accepted(dbrow)) =>
            /\ exc.line \in {0, 120}
            /\ blacklist # <<>>
            /\ Last(blacklist) = HostOnlyEntry(dbrow)
      /\ (/\ dbrow # Unbound
          /\ Blocked(dbrow)
          /\ ~Accepted(dbrow)
          /\ ~startswith(dbrow.origin_url, lit_chrome)) =>
            /\ pc = "error"
            /\ exc.line \in {132, 133, 135, 138}

\* C2 witness: a blocked row with an action URL, markup in its user name and
\* a password outside ASCII was rendered after a saved credential
C2_Witness ==
    /\ pc = "scan"
    /\ dbrow # Unbound
    /\ Blocked(dbrow)
    /\ Accepted(dbrow)
    /\ Truthy(dbrow.action_url)
    /\ dbrow.username_value = user_markup
    /\ dbrow.password_value = pw_e
    /\ Len(blacklist) = 1
    /\ Len(passlist) = 1

\* C3: the saved-credential entry rendered for an unblocked row carries
\* formSubmitURL, holding the stripped action URL, exactly when the row's
\* action URL is non-empty, and otherwise httpRealm holding the realm; no
\* entry of the saved list carries both.
C3_FormOrRealm ==
    pc = "scan" =>
      /\ \A i \in 1..Len(passlist) :
            ~(Contains(passlist[i], attr_formSubmitURL)
              /\ Contains(passlist[i], attr_httpRealm))
      /\ (/\ dbrow # Unbound
          /\ ~startswith(dbrow.origin_url, lit_chrome)
          /\ dbrow.blacklisted_by_user = 0) =>
            /\ passlist # <<>>
            /\ Contains(Last(passlist), attr_formSubmitURL)
                 <=> Truthy(dbrow.action_url)
            /\ Contains(Last(passlist), attr_httpRealm)
                 <=> ~Truthy(dbrow.action_url)
            /\ Truthy(dbrow.action_url) =>
                 Contains(Last(passlist),
                          attr_formSubmitURL
                          \o strip_path(dbrow.action_url).value \o <<34>>)
            /\ ~Truthy(dbrow.action_url) =>
                 Contains(Last(passlist),
                          attr_httpRealm \o dbrow.signon_realm \o <<34>>)

\* C4: the iteration that fetches a row whose origin starts with chrome:
\* raises nothing and leaves the saved list, the blocked list, the output
\* files and stdout as they were, whatever the row's other fields.
C4_InternalDiscarded ==
    [][ (/\ pc = "scan"
         /\ remaining' # remaining
         /\ startswith(dbrow'.origin_url, lit_chrome)) =>
            /\ pc' = "scan"
            /\ exc' = exc
            /\ passlist' = passlist
            /\ blacklist' = blacklist
            /\ files' = files
            /\ stdout' = stdout
            /\ outbuf' = outbuf ]_vars

\* C4 witness: a chrome: row with a non-HTTP action URL, a password that is
\* not UTF-8 and the blocked flag set has been fetched, and the scan goes on
C4_Witness ==
    /\ pc = "scan"
    /\ dbrow # Unbound
    /\ startswith(dbrow.origin_url, lit_chrome)
    /\ OtherScheme(dbrow.action_url)
    /\ decode_utf8(dbrow.password_value).raised
    /\ dbrow.blacklisted_by_user # 0
    /\ exc = NoExc

\* C5: in a written file no entry occurs twice, every entry a row of the
\* store stands for occurs exactly once, and the count printed for the file,
\* on stdout or still in the buffer of sys.stdout, is the number of distinct
\* entries in it.  A run that ends normally has printed the count of either
\* file and nothing else; what a block-buffered stdout holds after the
\* flush at exit is those two lines, or their beginning when it refused
\* the rest.
C5_EachEntryOnce ==
    /\ \A f \in FilePaths :
          Written(f) =>
            LET es == EntriesIn(files[f].disk)
                lines == split(Shown, 10)
            IN  /\ \A i, j \in 1..Len(es) : es[i] = es[j] => i = j
                /\ \A e \in EntriesFor(f) :
                      Cardinality({i \in 1..Len(es) :
                                      es[i] = encode(encoding, e).value}) = 1
                /\ \A i \in 1..Len(lines) :
                      Contains(lines[i], f)
                        => lines[i] =
                             written_msg(Cardinality({es[k] : k \in 1..Len(es)}),
                                         f)
    /\ pc = "done" =>
          /\ IsPrefix(Shown, CountLines)
          /\ ~FlushedAtExit => Shown = CountLines

\* C5 witness: two rows of the store gave one entry of passlist.xml
C5_Witness ==
    /\ pc = "done"
    /\ Reported(passlist_filepath)
    /\ Cardinality({d \in store : loop_body(d).outcome = "passlist"}) = 2
    /\ Len(EntriesIn(files[passlist_filepath].disk)) = 1

\* C6: what a run leaves in the two files is a function of the store alone.
\* A run gets past the scan exactly when no row of the store raises, and
\* when the run has ended normally either file is the container's head,
\* then the entries the rows of the store stand for, each once and in
\* strictly ascending order of their text, then the tail: the bytes a run
\* under a UTF-8 locale leaves, and so those every run must leave, whatever
\* order the rows were fetched in.
C6_Deterministic ==
    /\ (pc \in PastScan \/ ~FilesUntouched) =>
          \A d \in store :
              loop_body(d).outcome \notin {"raise_url", "raise_decode"}
    /\ (\E d \in store :
            loop_body(d).outcome \in {"raise_url", "raise_decode"})
          => FilesUntouched
    /\ \A f \in FilePaths :
          pc = "done" =>
            LET es == EntriesIn(files[f].disk)
                bytes == [e \in EntriesFor(f) |-> encode_utf8(e)]
            IN  /\ {es[i] : i \in 1..Len(es)} =
                      {bytes[e] : e \in DOMAIN bytes}
                /\ \A i \in 1..(Len(es) - 1) :
                      \E a, b \in DOMAIN bytes :
                          /\ es[i] = bytes[a]
                          /\ es[i + 1] = bytes[b]
                          /\ str_lt(a, b)
                /\ files[f].disk = encode_utf8(HeadOf(f)) \o concat(es)
                                      \o encode_utf8(tpl_tail)

WellFormedUrl(u) ==
    \/ startswith(u, <<104, 116, 116, 112, 58, 47, 47, 97>>)
    \/ startswith(u, <<104, 116, 116, 112, 115, 58, 47, 47, 97>>)

\* C8: strip_path returns an empty or absent URL unchanged, and what it
\* returns for a URL made of an HTTP-family scheme, '//' and a host holds no
\* path, no query string and no fragment: no '/' beyond the two of '//',
\* no '?', no '#'.
C8_StripsToOrigin ==
    pc \in {"strip_again", "raised"} =>
      /\ ~Truthy(url) => ~res1.raised /\ res1.value = url
      /\ WellFormedUrl(url) =>
            /\ ~res1.raised
            /\ Cardinality({i \in 1..Len(res1.value) : res1.value[i] = 47}) = 2
            /\ \A i \in 1..Len(res1.value) : res1.value[i] \notin {63, 35}

\* C9: when strip_path(u) returns, strip_path of what it returned returns
\* too, and returns the same value.
C9_StripIdempotent ==
    /\ pc # "raised_again"
    /\ pc = "returned" => ~res2.raised /\ res2.value = res1.value

\* C9 witness: a URL that lost its path was stripped a second time
C9_Witness ==
    /\ pc = "returned"
    /\ Truthy(url)
    /\ res1.value # url

\* C10: once the read phase has ended, normally or by an unexpected scheme
\* or a decode error, the store handle is no longer open: not while the
\* output files are written, not when the error is reported.
C10_HandleReleased ==
    (\/ pc \in PastScan
     \/ pc = "error" /\ exc.type \in {"Exception", "UnicodeDecodeError"})
      => conn # "open"

=============================================================================
